---- MODULE Spec2Model ----
(***************************************************************************)
(* A model of the task runner of task.go: the task registry, the visited   *)
(* set runTasks, the process environment, and RunTask's recursion as an    *)
(* explicit call stack.  A Go string is a sequence of tokens; the tokens   *)
(* "{{R}}" and "{{D}}" are placeholders, every other token is literal text. *)
(***************************************************************************)
EXTENDS Integers, Sequences, FiniteSets, TLC

VARIABLES
    Tasks,      \* task.go:25  the registry, name -> Task
    runTasks,   \* task.go:27  the names RunTask has been entered with
    env,        \* the process environment (os.Setenv, task.go:129)
    fs,         \* the file system read by isTaskUpToDate: glob results, mtimes
    stack,      \* the active RunTask calls, innermost last
    ret,        \* the value the last finished RunTask call returned
    trace,      \* what the run did, in order: calls, returns, commands, logs
    calls,      \* number of top-level RunTask calls made so far
    probe,      \* "none", or the result of a direct isTaskUpToDate evaluation
    args,       \* task.go:71  os.Args[1:]
    pc,         \* where Run is: "idle" (not running), "start", "loop", "fatal", "done"
    taskfiles,  \* the files Taskfile.yml, Taskfile.json, Taskfile.toml
    fatal       \* what log.Fatal was called with, NoRet if it was not

vars == <<Tasks, runTasks, env, fs, stack, ret, trace, calls, probe,
          args, pc, taskfiles, fatal>>

\* ---------------------------------------------------------------- bounds
MaxDeps  == 2    \* longest dependency list of a task
MaxCmds  == 2    \* longest command list of a task
MaxCalls == 2    \* top-level RunTask calls in one process
MaxTime  == 2    \* file modification times are 1..MaxTime (0 is the zero time)
MaxPatterns == 2 \* longest pattern list of the freshness inputs
MaxArgs  == 2    \* most command-line arguments of a run

\* ---------------------------------------------------------------- strings
A == <<"a">>
B == <<"b">>
C == <<"c">>
X == <<"x">>            \* a name no registry defines
TaskNames == {A, B, C}
CallNames == {A, B, C, X}

Placeholders == {"{{R}}", "{{D}}"}
VarOf(tok) == IF tok = "{{R}}" THEN "R" ELSE "D"

RECURSIVE Flatten(_)
Flatten(ss) == IF ss = <<>> THEN <<>> ELSE Head(ss) \o Flatten(Tail(ss))

\* ---------------------------------------------------------------- errors
Nil   == [kind |-> "nil", taskName |-> <<>>, err |-> ""]
NoRet == [kind |-> "none", taskName |-> <<>>, err |-> ""]
CyclicMsg == "Cyclic dependency detected"
ExitMsg   == "exit status 1"
VarsMsg   == "variable error"
taskRunError(name, cause) == [kind |-> "taskRunError", taskName |-> name, err |-> cause]
taskNotFoundError(name)   == [kind |-> "taskNotFoundError", taskName |-> name, err |-> ""]

\* ---------------------------------------------------------------- variables
\* Resolve: the task's static variables.  The call sites (task.go:105-108,
\* 116-119) handle a failure of the resolution: resolving a variable may
\* fail, resolving none cannot.
handleVariables(t) ==
    IF DOMAIN t.Variables = {}
    THEN { [vars |-> t.Variables, err |-> ""] }
    ELSE { [vars |-> t.Variables, err |-> ""], [vars |-> t.Variables, err |-> VarsMsg] }

\* Substitute: one left-to-right pass; a placeholder is replaced by the task's
\* static variable, else by the exported variable, else left verbatim.  The
\* replacement text is not expanded again.
ReplaceVariables(s, vs) ==
    Flatten([i \in 1..Len(s) |->
        IF s[i] \in Placeholders
        THEN IF VarOf(s[i]) \in DOMAIN vs THEN vs[VarOf(s[i])]
             ELSE IF VarOf(s[i]) \in DOMAIN env THEN env[VarOf(s[i])]
             ELSE <<s[i]>>
        ELSE <<s[i]>>])

\* mutant of Setenv: a variable that is already set is not overwritten
Setenv_keepFirst(e, name, value) ==
    [v \in DOMAIN e \cup {name} |-> IF v \in DOMAIN e THEN e[v] ELSE value]

\* os.Setenv(name, value)
Setenv(e, name, value) ==
    [v \in DOMAIN e \cup {name} |-> IF v = name THEN value ELSE e[v]]

\* ---------------------------------------------------------------- freshness
Max(S) == CHOOSE m \in S : \A x \in S : x <= m
Min(S) == CHOOSE m \in S : \A x \in S : m <= x

\* filepath.Glob(p) and os.Stat: fs.glob[p] is the set of files p matches, or
\* an error.
Matched(patterns) == UNION {fs.glob[patterns[i]].files : i \in 1..Len(patterns)}
AnyGlobErr(patterns) == \E i \in 1..Len(patterns) : fs.glob[patterns[i]].err

\* newest modification time over the files the patterns match; 0 is time.Time{}
getPatternsMaxTime(patterns) ==
    IF AnyGlobErr(patterns) THEN [t |-> 0, err |-> TRUE]
    ELSE IF Matched(patterns) = {} THEN [t |-> 0, err |-> FALSE]
    ELSE [t |-> Max({fs.mtime[f] : f \in Matched(patterns)}), err |-> FALSE]

\* oldest modification time over the files the patterns match
getPatternsMinTime(patterns) ==
    IF AnyGlobErr(patterns) THEN [t |-> 0, err |-> TRUE]
    ELSE IF Matched(patterns) = {} THEN [t |-> 0, err |-> FALSE]
    ELSE [t |-> Min({fs.mtime[f] : f \in Matched(patterns)}), err |-> FALSE]

\* mutant of IsZero: the zero time is not recognised
IsZero_never(t) == FALSE

\* time.Time.IsZero (task.go:141, 146)
IsZero(t) == t = 0

\* mutant of After: not before, so that equal times count as newer
After_orEqual(t, u) == t >= u

\* time.Time.After (task.go:150)
After(t, u) == t > u

\* task.go:135-151

isTaskUpToDate(t) ==
    IF Len(t.Sources) = 0 \/ Len(t.Generates) = 0 THEN FALSE
    ELSE LET sourcesMaxTime == getPatternsMaxTime(t.Sources)
             generatesMinTime == getPatternsMinTime(t.Generates)
         IN  IF sourcesMaxTime.err \/ IsZero(sourcesMaxTime.t) THEN FALSE
             ELSE IF generatesMinTime.err \/ IsZero(generatesMinTime.t) THEN FALSE
             ELSE After(generatesMinTime.t, sourcesMaxTime.t)

\* ---------------------------------------------------------------- registries
\* Injective sequences over S of length at most n: a dependency list that
\* names no task twice.
ListsUpTo(S, n) ==
    {s \in UNION {[1..k -> S] : k \in 0..n} : \A i, j \in 1..Len(s) : s[i] = s[j] => i = j}

DepD == <<"{{D}}">>                    \* a dependency named through a variable
StaticVars == [v \in {"D"} |-> C]      \* Variables: {D: "c"}
NoVars == [v \in {} |-> <<>>]

\* the i-th command of task `name`: its own text followed by {{R}}
CmdTemplate(name, i) == name \o <<ToString(i), "{{R}}">>

\* A task declares the variable D exactly when a dependency uses it.
TaskDef(name, deps, n, set, srcs, gens) ==
    [ Cmds      |-> [i \in 1..n |-> CmdTemplate(name, i)],
      Deps      |-> deps,
      Sources   |-> srcs,
      Generates |-> gens,
      Dir       |-> <<"{{D}}">>,
      Variables |-> IF \E i \in 1..Len(deps) : deps[i] = DepD THEN StaticVars ELSE NoVars,
      Set       |-> set ]

\* Task a varies in its dependencies, its number of commands, its capture
\* variable and its patterns; b in its dependencies; c is a leaf.
SetAndPatterns == {<<"", FALSE>>, <<"R", FALSE>>, <<"R", TRUE>>}

Registries ==
    { [nm \in TaskNames |->
         IF nm = A THEN TaskDef(A, da, na, sp[1], IF sp[2] THEN <<"src">> ELSE <<>>,
                                IF sp[2] THEN <<"gen">> ELSE <<>>)
         ELSE IF nm = B THEN TaskDef(B, db, 1, "R", <<>>, <<>>)
         ELSE TaskDef(C, <<>>, 1, "", <<>>, <<>>)] :
      da \in ListsUpTo({A, B, C, X}, MaxDeps), na \in 0..MaxCmds,
      sp \in SetAndPatterns, db \in ListsUpTo({A, B, C, X, DepD}, 1) }

\* in.txt and out.txt, out.txt modified at outTime
MainFs(outTime) ==
    [ glob  |-> [p \in {"src", "gen"} |->
                   [files |-> IF p = "src" THEN {"in.txt"} ELSE {"out.txt"}, err |-> FALSE]],
      mtime |-> [f \in {"in.txt", "out.txt"} |-> IF f = "in.txt" THEN 1 ELSE outTime] ]

Outputs == {<<"42">>, <<"7">>}         \* what a command may print

\* ---------------------------------------------------------------- task files
NilMap == <<>>                         \* a nil map[string]*Task: no entry

\* task.go:175, 178, 181: the extensions, in the order readTaskfile tries them
Formats == <<"yml", "json", "toml">>
FormatSet == {Formats[i] : i \in 1..Len(Formats)}

\* A file is missing, or holds text that does not decode, or holds a registry.
Missing   == [exists |-> FALSE, valid |-> FALSE, tasks |-> NilMap]
Malformed == [exists |-> TRUE, valid |-> FALSE, tasks |-> NilMap]
Holding(r) == [exists |-> TRUE, valid |-> TRUE, tasks |-> r]

\* The registry each file holds when it decodes; the three differ.
\*   yml:  a needs b and c, b needs c
\*   json: a needs b and has two commands
\*   toml: a needs the undefined x, b needs {{D}}
RegFile(f) ==
    [nm \in TaskNames |->
       IF f = "yml"
       THEN (IF nm = A THEN TaskDef(A, <<B, C>>, 1, "", <<>>, <<>>)
             ELSE IF nm = B THEN TaskDef(B, <<C>>, 1, "R", <<>>, <<>>)
             ELSE TaskDef(C, <<>>, 1, "", <<>>, <<>>))
       ELSE IF f = "json"
       THEN (IF nm = A THEN TaskDef(A, <<B>>, 2, "R", <<>>, <<>>)
             ELSE IF nm = B THEN TaskDef(B, <<>>, 1, "R", <<>>, <<>>)
             ELSE TaskDef(C, <<>>, 1, "", <<>>, <<>>))
       ELSE (IF nm = A THEN TaskDef(A, <<X>>, 1, "", <<>>, <<>>)
             ELSE IF nm = B THEN TaskDef(B, <<DepD>>, 1, "R", <<>>, <<>>)
             ELSE TaskDef(C, <<>>, 1, "", <<>>, <<>>))]

FileStates(f) == {Missing, Malformed, Holding(RegFile(f))}
TaskFiles ==
    {tf \in [FormatSet -> UNION {FileStates(f) : f \in FormatSet}] :
        \A f \in FormatSet : tf[f] \in FileStates(f)}

\* Run is not running: RunTask is called directly on a registry already loaded
NotRun ==
    /\ args = <<>>
    /\ pc = "idle"
    /\ taskfiles = [f \in FormatSet |-> Missing]
    /\ fatal = NoRet

\* ---------------------------------------------------------------- RunTask
Top == stack[Len(stack)]
Pop == SubSeq(stack, 1, Len(stack) - 1)
ReplaceTop(f) == [stack EXCEPT ![Len(stack)] = f]

CallEv(name) ==
    [ev |-> "call", name |-> name, visited |-> name \in runTasks, depth |-> Len(stack)]
RetEv(name, e, depth) == [ev |-> "ret", name |-> name, err |-> e, depth |-> depth]
LogEv(name) == [ev |-> "log", name |-> name]
CmdEv(name, i, c, dir, ok, out) ==
    [ev |-> "cmd", name |-> name, idx |-> i, cmd |-> c, dir |-> dir, ok |-> ok, out |-> out]

\* mutant of found: the lookup never finds the name
found_never(name) == FALSE

\* task.go:91  _, found := runTasks[name]
found(name) == name \in runTasks

\* mutant of markRun: the name is recorded only once its task is found
markRun_ifDefined(name) == IF name \in DOMAIN Tasks THEN runTasks \cup {name} ELSE runTasks

\* mutant of markRun: the name is not recorded
markRun_none(name) == runTasks

\* task.go:94  runTasks[name] = true
markRun(name) == runTasks \cup {name}

\* task.go:96  t, ok := Tasks[name]
defined(name) == name \in DOMAIN Tasks

\* mutant of cyclicError: a name already run is reported as done
cyclicError_nil(name) == Nil

\* task.go:92  the error returned for a name that is in runTasks
cyclicError(name) == taskRunError(name, CyclicMsg)

\* A call that returns at once with e, after the events evs.
ReturnNow(name, evs, e) ==
    /\ stack' = stack
    /\ ret' = e
    /\ trace' = trace \o <<CallEv(name)>> \o evs \o <<RetEv(name, e, Len(stack))>>

\* task.go:105-108: the variables are resolved and the body of the task starts
Start(name) ==
    \E r \in handleVariables(Tasks[name]) :
       IF r.err # ""
       THEN ReturnNow(name, <<>>, taskRunError(name, r.err))
       ELSE /\ stack' = Append(stack, [name |-> name, vars |-> r.vars, d |-> 1, c |-> 1])
            /\ ret' = NoRet
            /\ trace' = Append(trace, CallEv(name))

\* mutant of SkipReturn: the return after the log line is missing
SkipReturn_fallthrough(name) == Start(name)

\* task.go:101-104: the task is up to date
SkipReturn(name) == ReturnNow(name, <<LogEv(name)>>, Nil)

\* task.go:90-108: RunTask from its entry to the start of the dependency loop
Enter(name) ==
    /\ UNCHANGED <<Tasks, env, fs, probe, args, pc, taskfiles, fatal>>
    /\ IF found(name)
       THEN /\ runTasks' = runTasks
            /\ ReturnNow(name, <<>>, cyclicError(name))
       ELSE /\ runTasks' = markRun(name)
            /\ IF ~defined(name)
               THEN ReturnNow(name, <<>>, taskNotFoundError(name))
               ELSE IF isTaskUpToDate(Tasks[name])
               THEN SkipReturn(name)
               ELSE Start(name)

\* a caller outside the runner calls RunTask(name)
Call(name) ==
    /\ stack = <<>>
    /\ calls < MaxCalls
    /\ calls' = calls + 1
    /\ Enter(name)

\* task.go:109-110: the next dependency is called
DepCall ==
    /\ stack # <<>>
    /\ ret = NoRet
    /\ Top.d <= Len(Tasks[Top.name].Deps)
    /\ Enter(ReplaceVariables(Tasks[Top.name].Deps[Top.d], Top.vars))
    /\ UNCHANGED calls

\* mutant of depError: the error is wrapped with the caller's name
depError_wrap(name, e) == taskRunError(name, e.err)

\* task.go:111  return err: what the caller returns when its dependency
\* returned e
depError(name, e) == e

\* task.go:110-112: the dependency returned an error
DepFailed ==
    /\ stack # <<>>
    /\ ret \notin {NoRet, Nil}
    /\ stack' = Pop
    /\ ret' = depError(Top.name, ret)
    /\ trace' = Append(trace, RetEv(Top.name, ret', Len(stack) - 1))
    /\ UNCHANGED <<Tasks, runTasks, env, fs, calls, probe, args, pc, taskfiles, fatal>>

\* task.go:109-113: the dependency returned nil, the loop goes on
DepDone ==
    /\ stack # <<>>
    /\ ret = Nil
    /\ stack' = ReplaceTop([Top EXCEPT !.d = @ + 1])
    /\ ret' = NoRet
    /\ UNCHANGED <<Tasks, runTasks, env, fs, trace, calls, probe, args, pc, taskfiles, fatal>>

\* mutant of InCmds: the command loop does not wait for the dependency loop
InCmds_early ==
    /\ stack # <<>>
    /\ ret = NoRet

\* task.go:114: the dependency loop is over
InCmds ==
    /\ stack # <<>>
    /\ ret = NoRet
    /\ Top.d > Len(Tasks[Top.name].Deps)

\* the innermost call returns e
ReturnErr(e) ==
    /\ stack' = Pop
    /\ ret' = e
    /\ UNCHANGED <<Tasks, runTasks, fs, calls, probe, args, pc, taskfiles, fatal>>

\* mutant of export: the output is not exported
export_none(t, output) == env

\* mutant of export: the test of t.Set is missing
export_always(t, output) == Setenv(env, t.Set, output)

\* task.go:128-130
export(t, output) == IF t.Set # "" THEN Setenv(env, t.Set, output) ELSE env

\* task.go:116-119: the variables cannot be resolved before a command
CmdVarsFail(e) ==
    /\ ReturnErr(taskRunError(Top.name, e))
    /\ env' = env
    /\ trace' = Append(trace, RetEv(Top.name, ret', Len(stack) - 1))

\* mutant of CmdFail: the (empty) output is exported before the error is checked
CmdFail_exports(c, dir) ==
    /\ ReturnErr(taskRunError(Top.name, ExitMsg))
    /\ env' = IF Tasks[Top.name].Set # "" THEN Setenv(env, Tasks[Top.name].Set, <<>>) ELSE env
    /\ trace' = trace \o <<CmdEv(Top.name, Top.c, c, dir, FALSE, <<>>),
                           RetEv(Top.name, ret', Len(stack) - 1)>>

\* task.go:124-126: runCommand returned an error
CmdFail(c, dir) ==
    /\ ReturnErr(taskRunError(Top.name, ExitMsg))
    /\ env' = env
    /\ trace' = trace \o <<CmdEv(Top.name, Top.c, c, dir, FALSE, <<>>),
                           RetEv(Top.name, ret', Len(stack) - 1)>>

\* task.go:124-130: runCommand returned output
CmdOk(c, dir, vs, output) ==
    /\ env' = export(Tasks[Top.name], output)
    /\ stack' = ReplaceTop([Top EXCEPT !.vars = vs, !.c = @ + 1])
    /\ ret' = NoRet
    /\ trace' = Append(trace, CmdEv(Top.name, Top.c, c, dir, TRUE, output))
    /\ UNCHANGED <<Tasks, runTasks, fs, calls, probe, args, pc, taskfiles, fatal>>

\* task.go:114-131: one iteration of the command loop
RunCmd ==
    /\ InCmds
    /\ Top.c <= Len(Tasks[Top.name].Cmds)
    /\ LET t == Tasks[Top.name]
       IN \E r \in handleVariables(t) :
            IF r.err # ""
            THEN CmdVarsFail(r.err)
            ELSE LET c   == ReplaceVariables(t.Cmds[Top.c], r.vars)
                     dir == ReplaceVariables(t.Dir, r.vars)
                 IN \/ CmdFail(c, dir)
                    \/ \E output \in Outputs : CmdOk(c, dir, r.vars, output)

\* task.go:132: every command has run
Return ==
    /\ InCmds
    /\ Top.c > Len(Tasks[Top.name].Cmds)
    /\ ReturnErr(Nil)
    /\ env' = env
    /\ trace' = Append(trace, RetEv(Top.name, Nil, Len(stack) - 1))

Init ==
    /\ Tasks \in Registries
    /\ fs \in {MainFs(2), MainFs(1)}
    /\ (Len(Tasks[A].Sources) = 0 => fs = MainFs(1))
    /\ runTasks = {}
    /\ env = <<>>
    /\ stack = <<>>
    /\ ret = NoRet
    /\ trace = <<>>
    /\ calls = 0
    /\ probe = "none"
    /\ NotRun

Next ==
    \/ \E name \in CallNames : Call(name)
    \/ DepCall
    \/ DepFailed
    \/ DepDone
    \/ RunCmd
    \/ Return

Spec == Init /\ [][Next]_vars

\* ---------------------------------------------------------------- freshness inputs
Patterns == {"p", "q"}
Files == {"f", "g"}
PatternLists == UNION {[1..k -> Patterns] : k \in 0..MaxPatterns}
GlobResults == {[files |-> S, err |-> FALSE] : S \in SUBSET Files}
                  \cup {[files |-> {}, err |-> TRUE]}

\* One task a with one command, any pattern lists, over any small file system.
FreshInit ==
    /\ \E srcs \in PatternLists, gens \in PatternLists :
          Tasks = [nm \in {A} |-> TaskDef(A, <<>>, 1, "", srcs, gens)]
    /\ fs \in [glob : [Patterns -> GlobResults], mtime : [Files -> 1..MaxTime]]
    /\ runTasks = {}
    /\ env = <<>>
    /\ stack = <<>>
    /\ ret = NoRet
    /\ trace = <<>>
    /\ calls = 0
    /\ probe = "none"
    /\ NotRun

\* isTaskUpToDate(Tasks["a"]) is evaluated
Probe ==
    /\ probe = "none"
    /\ probe' = IF isTaskUpToDate(Tasks[A]) THEN "true" ELSE "false"
    /\ UNCHANGED <<Tasks, runTasks, env, fs, stack, ret, trace, calls, args, pc, taskfiles, fatal>>

\* RunTask("a") after the evaluation
FreshCall ==
    /\ probe # "none"
    /\ calls = 0
    /\ Call(A)

FreshNext == Probe \/ FreshCall \/ RunCmd \/ Return

SpecFresh == FreshInit /\ [][FreshNext]_vars

\* ---------------------------------------------------------------- Run
\* task.go:188
ErrNoTaskFile == [kind |-> "error", taskName |-> <<>>, err |-> "no task file found"]
\* task.go:73
NoArgument == [kind |-> "error", taskName |-> <<>>, err |-> "No argument given"]
\* the error of yaml.Unmarshal, json.Unmarshal, toml.Unmarshal
ParseError(f) == [kind |-> "error", taskName |-> <<>>, err |-> "cannot decode " \o f]

\* the file was read and readTaskfile returned what its decoding gave
LoadEv(f, e) == [ev |-> "load", from |-> f, err |-> e]

\* task.go:176, 179, 182  Unmarshal(b, &tasks): the map decoded and the error
Unmarshal(f) ==
    IF taskfiles[f].valid
    THEN [tasks |-> taskfiles[f].tasks, err |-> Nil]
    ELSE [tasks |-> NilMap, err |-> ParseError(f)]

\* mutant of candidates: a file that does not decode is passed over
candidates_decoding ==
    {i \in 1..Len(Formats) : taskfiles[Formats[i]].exists /\ taskfiles[Formats[i]].valid}

\* task.go:175, 178, 181  ioutil.ReadFile(...) returned err == nil
candidates == {i \in 1..Len(Formats) : taskfiles[Formats[i]].exists}

\* task.go:174-185: the results readTaskfile may return.  In
\* `return tasks, yaml.Unmarshal(b, &tasks)` Go does not order the read of
\* tasks and the call: the map returned is the decoded one or still nil.
readTaskfile ==
    IF candidates = {}
    THEN { [from |-> "none", tasks |-> NilMap, err |-> ErrNoTaskFile] }
    ELSE LET f == Formats[Min(candidates)]
             u == Unmarshal(f)
         IN { [from |-> f, tasks |-> t, err |-> u.err] : t \in {u.tasks, NilMap} }

\* mutant of fatalOn: the error of RunTask is dropped
fatalOn_never(e) == FALSE

\* task.go:83  err != nil
fatalOn(e) == e # Nil

\* task.go:69-80: the arguments are checked and the registry is loaded
RunStart ==
    /\ pc = "start"
    /\ IF Len(args) = 0
       THEN /\ pc' = "fatal"
            /\ fatal' = NoArgument
            /\ UNCHANGED <<Tasks, trace>>
       ELSE \E r \in readTaskfile :
               /\ Tasks' = r.tasks
               /\ trace' = Append(trace, LoadEv(r.from, r.err))
               /\ IF r.err # Nil
                  THEN pc' = "fatal" /\ fatal' = r.err
                  ELSE pc' = "loop" /\ fatal' = fatal
    /\ UNCHANGED <<runTasks, env, fs, stack, ret, calls, probe, args, taskfiles>>

\* task.go:82-83: RunTask is called with the next argument
RunCall ==
    /\ pc = "loop"
    /\ stack = <<>>
    /\ ret = NoRet
    /\ calls < Len(args)
    /\ calls' = calls + 1
    /\ Enter(args[calls + 1])

\* task.go:83-85: RunTask returned to Run
RunReturned ==
    /\ pc = "loop"
    /\ stack = <<>>
    /\ ret # NoRet
    /\ IF fatalOn(ret)
       THEN pc' = "fatal" /\ fatal' = ret /\ ret' = ret
       ELSE pc' = pc /\ fatal' = fatal /\ ret' = NoRet
    /\ UNCHANGED <<Tasks, runTasks, env, fs, stack, trace, calls, probe, args, taskfiles>>

\* task.go:86-87: every argument has run
RunDone ==
    /\ pc = "loop"
    /\ stack = <<>>
    /\ ret = NoRet
    /\ calls = Len(args)
    /\ pc' = "done"
    /\ UNCHANGED <<Tasks, runTasks, env, fs, stack, ret, trace, calls, probe, args,
                   taskfiles, fatal>>

ArgLists == UNION {[1..k -> CallNames] : k \in 0..MaxArgs}

\* task.go:25-27, 68: the process starts with any arguments and any task files
RunInit ==
    /\ Tasks = NilMap
    /\ args \in ArgLists
    /\ taskfiles \in TaskFiles
    /\ fs = MainFs(1)
    /\ runTasks = {}
    /\ env = <<>>
    /\ stack = <<>>
    /\ ret = NoRet
    /\ trace = <<>>
    /\ calls = 0
    /\ probe = "none"
    /\ pc = "start"
    /\ fatal = NoRet

RunNext ==
    \/ RunStart
    \/ RunCall
    \/ RunReturned
    \/ RunDone
    \/ DepCall
    \/ DepFailed
    \/ DepDone
    \/ RunCmd
    \/ Return

SpecRun == RunInit /\ [][RunNext]_vars

\* ---------------------------------------------------------------- the run, read from trace
Idx == 1..Len(trace)
IsCall(i) == trace[i].ev = "call"
IsRet(i)  == trace[i].ev = "ret"
IsCmd(i)  == trace[i].ev = "cmd"
IsLog(i)  == trace[i].ev = "log"

\* the events this step appends to trace
Appended == SubSeq(trace', Len(trace) + 1, Len(trace'))

\* positions at which a top-level call returned
TopReturns == {i \in Idx : IsRet(i) /\ trace[i].depth = 0}
\* the first top-level call has returned, at position FirstReturn
FirstReturned == TopReturns # {}
FirstReturn == Min(TopReturns)
\* the events of the first top-level call so far
FirstCallEnd == IF FirstReturned THEN FirstReturn ELSE Len(trace)

\* the names a task's dependency list resolves to
DepNames(n) ==
    {ReplaceVariables(Tasks[n].Deps[i], Tasks[n].Variables) : i \in 1..Len(Tasks[n].Deps)}

\* the names reachable from n through dependencies, n included
RECURSIVE ReachFrom(_, _)
ReachFrom(seen, k) ==
    IF k = 0 THEN seen
    ELSE ReachFrom(seen \cup UNION {DepNames(n) : n \in seen \cap DOMAIN Tasks}, k - 1)
Closure(n) == ReachFrom({n}, Cardinality(DOMAIN Tasks) + 1)

\* C1
\* a depends on b and b on a, neither is up to date, and the first call of the
\* process is RunTask("a")
CycleAB ==
    /\ Tasks[A].Deps = <<B>>
    /\ Tasks[B].Deps = <<A>>
    /\ ~isTaskUpToDate(Tasks[A])
    /\ ~isTaskUpToDate(Tasks[B])
    /\ trace # <<>>
    /\ trace[1].name = A

\* C1: with a -> b -> a, RunTask("a") returns a cyclic-dependency error and no
\* command of any task has been executed when it returns.
C1_CycleDetected ==
    CycleAB =>
        /\ \A i \in 1..FirstCallEnd : ~IsCmd(i)
        /\ FirstReturned =>
              /\ trace[FirstReturn].name = A
              /\ trace[FirstReturn].err.kind = "taskRunError"
              /\ trace[FirstReturn].err.err = CyclicMsg

C1_Witness ==
    /\ CycleAB
    /\ FirstReturned
    /\ trace[FirstReturn].err = taskRunError(A, CyclicMsg)
    /\ \E i \in 1..FirstReturn : IsCall(i) /\ trace[i].name = B

\* C2
\* no task reaches itself through its dependencies
Acyclic == \A n \in DOMAIN Tasks : \A m \in DepNames(n) : n \notin Closure(m)
AllDefined == \A n \in DOMAIN Tasks : DepNames(n) \subseteq DOMAIN Tasks
NoneUpToDate == \A n \in DOMAIN Tasks : ~isTaskUpToDate(Tasks[n])
\* within the first top-level call no command and no variable resolution failed
NothingFailed ==
    \A i \in 1..FirstCallEnd :
        /\ IsCmd(i) => trace[i].ok
        /\ IsRet(i) => trace[i].err.err \notin {ExitMsg, VarsMsg}
\* the commands task n ran in the first top-level call, in the order they ran
CmdsRun(n) ==
    SelectSeq(SubSeq(trace, 1, FirstCallEnd), LAMBDA e : e.ev = "cmd" /\ e.name = n)

\* C2: in a registry without cycles, one top-level RunTask(name) enters each
\* task of name's dependency closure exactly once and runs each task's
\* commands in their declared order.
C2_EachOnceInOrder ==
    (Acyclic /\ AllDefined /\ NoneUpToDate /\ NothingFailed /\ FirstReturned
       /\ trace[1].name \in DOMAIN Tasks) =>
        \A n \in Closure(trace[1].name) :
            /\ Cardinality({i \in 1..FirstReturn : IsCall(i) /\ trace[i].name = n}) = 1
            /\ Len(CmdsRun(n)) = Len(Tasks[n].Cmds)
            /\ \A k \in 1..Len(CmdsRun(n)) : CmdsRun(n)[k].idx = k

\* C3: a RunTask call entered with a name that is already in runTasks returns
\* the cyclic-dependency error for that name at once: nothing is called or
\* executed between its entry and its return.
C3_VisitedIsCycle ==
    \A i \in Idx :
        (IsCall(i) /\ trace[i].visited) =>
            /\ i < Len(trace)
            /\ trace[i + 1] = RetEv(trace[i].name, taskRunError(trace[i].name, CyclicMsg),
                                    trace[i].depth)

\* a shared dependency: the name was entered before, that call returned nil, and
\* a later dependency names it again
C3_Witness ==
    \E i, j \in Idx :
        /\ i < j
        /\ IsRet(i) /\ trace[i].err = Nil
        /\ IsCall(j) /\ trace[j].visited /\ trace[j].name = trace[i].name
        /\ trace[j].depth > 0
        /\ calls = 1

\* C4
\* this step enters RunTask(n): the first event it appends is the call of n
Enters(n) == Appended # <<>> /\ Appended[1].ev = "call" /\ Appended[1].name = n

\* C4: a call that reaches a task that is up to date logs it and returns nil
\* in the same step: no dependency is called, no command is executed, and the
\* environment is left as it was.
C4_UpToDateSkips ==
    [][\A n \in CallNames :
          (Enters(n) /\ ~found(n) /\ defined(n) /\ isTaskUpToDate(Tasks[n])) =>
              /\ Appended = <<CallEv(n), LogEv(n), RetEv(n, Nil, Len(stack))>>
              /\ ret' = Nil
              /\ stack' = stack
              /\ env' = env]_vars

\* a is up to date, has a dependency that is not, and has commands; RunTask("a")
\* returned nil and nothing else happened
C4_Witness ==
    /\ isTaskUpToDate(Tasks[A])
    /\ Tasks[A].Deps # <<>>
    /\ \E i \in 1..Len(Tasks[A].Deps) : Tasks[A].Deps[i] = B
    /\ Tasks[A].Cmds # <<>>
    /\ trace = <<[ev |-> "call", name |-> A, visited |-> FALSE, depth |-> 0],
                 LogEv(A), RetEv(A, Nil, 0)>>
    /\ ret = Nil
    /\ stack = <<>>

\* C7
\* the task whose call is active one level above the event at position i
Caller(i) ==
    LET js == {j \in 1..(i - 1) : IsCall(j) /\ trace[j].depth = trace[i].depth - 1}
    IN trace[Max(js)].name

\* C7: when a dependency returns an error, the next thing that happens is that
\* its caller returns exactly that error, so no later dependency and no command
\* of the caller runs; by the same rule every ancestor returns it in turn.
C7_DepErrorUnchanged ==
    \A i \in Idx :
        (IsRet(i) /\ trace[i].err # Nil /\ trace[i].depth > 0) =>
            IF i < Len(trace)
            THEN trace[i + 1] = RetEv(Caller(i), trace[i].err, trace[i].depth - 1)
            ELSE ret = trace[i].err /\ Len(stack) = trace[i].depth

\* an error two levels down reached the top-level caller unchanged, whose task
\* has commands that were not run
C7_Witness ==
    \E i \in Idx :
        /\ i + 2 <= Len(trace)
        /\ IsRet(i) /\ trace[i].depth = 2 /\ trace[i].err # Nil
        /\ trace[i].err.taskName = trace[i].name
        /\ IsRet(i + 2) /\ trace[i + 2].depth = 0 /\ trace[i + 2].err = trace[i].err
        /\ trace[i + 2].name # trace[i].name
        /\ Tasks[trace[i + 2].name].Cmds # <<>>
        /\ \A k \in Idx : ~(IsCmd(k) /\ trace[k].name = trace[i + 2].name)

\* C8
C8_Stops ==
    \A i \in Idx :
        (IsCmd(i) /\ ~trace[i].ok) =>
            /\ i < Len(trace)
            /\ IsRet(i + 1)
            /\ trace[i + 1].name = trace[i].name
            /\ trace[i + 1].err = [kind |-> "taskRunError", taskName |-> trace[i].name,
                                   err |-> ExitMsg]
            /\ \A j \in Idx : (j > i /\ IsCmd(j)) => trace[j].name # trace[i].name

C8_NoExport ==
    (Appended # <<>> /\ Appended[1].ev = "cmd" /\ ~Appended[1].ok) => env' = env

\* C8: when a command of T fails, RunTask(T) returns the task-run error with
\* T's name and the command's error, no later command of T is ever executed,
\* and the environment is unchanged by the failed command.
C8_CmdFailure == []C8_Stops /\ [][C8_NoExport]_vars

\* the second command of a failed after the first one exported "42"; R still
\* holds "42"
C8_Witness ==
    /\ Tasks[A].Set = "R"
    /\ Len(Tasks[A].Cmds) >= 2
    /\ \E i \in Idx :
          /\ i + 2 <= Len(trace)
          /\ IsCmd(i) /\ trace[i].name = A /\ trace[i].idx = 1 /\ trace[i].out = <<"42">>
          /\ IsCmd(i + 1) /\ trace[i + 1].name = A /\ trace[i + 1].idx = 2 /\ ~trace[i + 1].ok
          /\ IsRet(i + 2) /\ trace[i + 2].name = A
          /\ trace[i + 2].err = taskRunError(A, ExitMsg)
    /\ "R" \in DOMAIN env
    /\ env["R"] = <<"42">>

\* C9: every RunTask call with a name that the registry does not define
\* returns the task-not-found error for that name at once.
C9_UndefinedNotFound ==
    \A i \in Idx :
        (IsCall(i) /\ trace[i].name \notin DOMAIN Tasks) =>
            /\ i < Len(trace)
            /\ trace[i + 1] = RetEv(trace[i].name,
                                    [kind |-> "taskNotFoundError", taskName |-> trace[i].name,
                                     err |-> ""],
                                    trace[i].depth)

\* C10
\* the template s with the placeholder {{R}} replaced by the text v
WithR(s, v) == Flatten([i \in 1..Len(s) |-> IF s[i] = "{{R}}" THEN v ELSE <<s[i]>>])

C10_NextSeesOutput ==
    \A i \in Idx :
        (/\ i < Len(trace)
         /\ IsCmd(i) /\ IsCmd(i + 1)
         /\ trace[i + 1].name = trace[i].name
         /\ trace[i + 1].idx = trace[i].idx + 1
         /\ Tasks[trace[i].name].Set = "R") =>
            trace[i + 1].cmd = WithR(Tasks[trace[i].name].Cmds[trace[i + 1].idx], trace[i].out)

C10_Exports ==
    /\ \* a command succeeded
       (Appended # <<>> /\ Appended[1].ev = "cmd" /\ Appended[1].ok
          /\ Tasks[Appended[1].name].Set # "") =>
            /\ Tasks[Appended[1].name].Set \in DOMAIN env'
            /\ env'[Tasks[Appended[1].name].Set] = Appended[1].out
    /\ \* a task returned after its last command
       (Appended # <<>> /\ Appended[1].ev = "ret" /\ Appended[1].err = Nil
          /\ Tasks[Appended[1].name].Set # "" /\ Tasks[Appended[1].name].Cmds # <<>>) =>
            /\ IsCmd(Len(trace))
            /\ trace[Len(trace)].name = Appended[1].name
            /\ trace[Len(trace)].idx = Len(Tasks[Appended[1].name].Cmds)
            /\ Tasks[Appended[1].name].Set \in DOMAIN env'
            /\ env'[Tasks[Appended[1].name].Set] = trace[Len(trace)].out

\* C10: in a task with a capture variable, each successful command leaves its
\* output in the variable, the next command of the task is run with the
\* previous output substituted, and when the task returns the variable holds
\* the output of its last command.
C10_Capture == []C10_NextSeesOutput /\ [][C10_Exports]_vars

\* a (Set: R) ran two commands printing "42" then "7", the second as "a 2 42",
\* and returned; R is "7"
C10_Witness ==
    /\ Tasks[A].Set = "R"
    /\ Len(Tasks[A].Cmds) = 2
    /\ Len(trace) >= 3
    /\ LET n == Len(trace)
       IN /\ IsRet(n) /\ trace[n].name = A /\ trace[n].err = Nil
          /\ IsCmd(n - 1) /\ trace[n - 1].out = <<"7">> /\ trace[n - 1].cmd = <<"a", "2", "42">>
          /\ IsCmd(n - 2) /\ trace[n - 2].out = <<"42">> /\ trace[n - 2].name = A
    /\ "R" \in DOMAIN env
    /\ env["R"] = <<"7">>

\* ---------------------------------------------------------------- freshness claims
Srcs == Tasks[A].Sources
Gens == Tasks[A].Generates
BothMatch ==
    /\ Len(Srcs) > 0 /\ Len(Gens) > 0
    /\ ~AnyGlobErr(Srcs) /\ ~AnyGlobErr(Gens)
    /\ Matched(Srcs) # {} /\ Matched(Gens) # {}

\* C5: with source and output patterns that match files, isTaskUpToDate is
\* true exactly when every matched output is strictly newer than every matched
\* source; equal times give false.
C5_StrictlyNewer ==
    (probe # "none" /\ BothMatch) =>
        (probe = "true" <=>
            \A g \in Matched(Gens), f \in Matched(Srcs) : fs.mtime[g] > fs.mtime[f])

\* the oldest output is exactly as old as the newest source: not up to date
C5_Witness ==
    /\ probe = "false"
    /\ BothMatch
    /\ Matched(Gens) # Matched(Srcs)
    /\ Min({fs.mtime[g] : g \in Matched(Gens)}) = Max({fs.mtime[f] : f \in Matched(Srcs)})

\* C6: with an empty pattern list, with no matching source or output, or with
\* an error expanding a pattern, the task is not up to date, and RunTask runs
\* its command instead of logging it as up to date.
C6_StaleWithoutInputs ==
    (\/ Len(Srcs) = 0 \/ Len(Gens) = 0
     \/ Matched(Srcs) = {} \/ Matched(Gens) = {}
     \/ AnyGlobErr(Srcs) \/ AnyGlobErr(Gens)) =>
        /\ probe \in {"none", "false"}
        /\ \A i \in Idx : ~IsLog(i)
        /\ Len(trace) >= 2 => IsCmd(2)

\* the sources match a file and no output matches; the command was run
C6_Witness ==
    /\ probe = "false"
    /\ Len(Srcs) > 0 /\ Len(Gens) > 0
    /\ ~AnyGlobErr(Srcs) /\ ~AnyGlobErr(Gens)
    /\ Matched(Srcs) # {} /\ Matched(Gens) = {}
    /\ Len(trace) >= 2
    /\ IsCmd(2)

\* ---------------------------------------------------------------- order, visited set, environment
\* the position at which the call that ran the command at position k was entered
Invocation(k) ==
    Max({j \in 1..(k - 1) : IsCall(j) /\ trace[j].name = trace[k].name /\ ~trace[j].visited})

\* the calls and returns one level below the call entered at j, up to position k
DepEvents(j, k) ==
    SelectSeq(SubSeq(trace, j + 1, k - 1),
              LAMBDA e : e.ev \in {"call", "ret"} /\ e.depth = trace[j].depth + 1)

\* C12: when a command of a task runs, every dependency of the task has been
\* called and has returned nil, one after the other in declared order, each
\* between the task's entry and the command; nothing of the task itself
\* happened in between except its earlier commands.
C12_DepsBeforeCmds ==
    \A k \in Idx :
        IsCmd(k) =>
            LET n  == trace[k].name
                j  == Invocation(k)
                ds == DepEvents(j, k)
            IN /\ Len(ds) = 2 * Len(Tasks[n].Deps)
               /\ \A i \in 1..Len(Tasks[n].Deps) :
                     /\ ds[2 * i - 1].ev = "call"
                     /\ ds[2 * i - 1].name = ReplaceVariables(Tasks[n].Deps[i], Tasks[n].Variables)
                     /\ ds[2 * i] = RetEv(ds[2 * i - 1].name, Nil, trace[j].depth + 1)
               /\ \A m \in (j + 1)..(k - 1) :
                     (IsRet(m) \/ IsCall(m)) => trace[m].depth > trace[j].depth
               /\ \A m \in (j + 1)..(k - 1) :
                     (IsCmd(m) /\ trace[m].name = n) =>
                        /\ trace[m].idx < trace[k].idx
                        /\ \A q \in (m + 1)..(k - 1) : IsCmd(q) /\ trace[q].name = n

\* a ran its first command after b and then c had run theirs and returned
C12_Witness ==
    /\ Tasks[A].Deps = <<B, C>>
    /\ \E k \in Idx :
          /\ IsCmd(k) /\ trace[k].name = A /\ trace[k].idx = 1
          /\ \E i, j \in 1..(k - 1) :
                /\ i < j
                /\ IsCmd(i) /\ trace[i].name = B
                /\ IsCmd(j) /\ trace[j].name = C

\* C13
C13_Exactly == runTasks = {trace[i].name : i \in {j \in Idx : IsCall(j)}}
C13_Grows == runTasks \subseteq runTasks'

\* C13: runTasks holds exactly the names RunTask has been entered with, whatever
\* became of the call, and no step removes a name from it.
C13_VisitedSet == []C13_Exactly /\ [][C13_Grows]_vars

\* a was skipped as up to date, x was not found, b failed: all three are in
\* runTasks
C13_Witness ==
    /\ runTasks = {A, B, X}
    /\ \E i \in Idx : IsLog(i) /\ trace[i].name = A
    /\ \E i \in Idx : IsRet(i) /\ trace[i].name = X /\ trace[i].err = taskNotFoundError(X)
    /\ \E i \in Idx : IsRet(i) /\ trace[i].name = B /\ trace[i].err # Nil
    /\ stack = <<>>

\* C14
\* the successful commands before position k whose task exports to R
ExportsBefore(k) ==
    {j \in 1..(k - 1) : IsCmd(j) /\ trace[j].ok /\ Tasks[trace[j].name].Set = "R"}

\* C14: every command is run with {{R}} replaced by the output of the latest
\* successful command, of whatever task, that exported R before it (and left
\* verbatim when there was none): the export of a dependency is seen by the
\* commands of its parent and of later dependencies.
C14_ProcessWide ==
    \A k \in Idx :
        IsCmd(k) =>
            trace[k].cmd =
                IF ExportsBefore(k) = {}
                THEN Tasks[trace[k].name].Cmds[trace[k].idx]
                ELSE WithR(Tasks[trace[k].name].Cmds[trace[k].idx],
                           trace[Max(ExportsBefore(k))].out)

\* b (Set: R) printed "42" as a dependency of a; the later dependency c, which
\* exports nothing, and then a itself ran their commands with 42 substituted
C14_Witness ==
    /\ Tasks[A].Deps = <<B, C>>
    /\ Tasks[A].Set = ""
    /\ \E i, j, k \in Idx :
          /\ i < j /\ j < k
          /\ IsCmd(i) /\ trace[i].name = B /\ trace[i].out = <<"42">>
          /\ IsCmd(j) /\ trace[j].cmd = <<"c", "1", "42">>
          /\ IsCmd(k) /\ trace[k].cmd = <<"a", "1", "42">>

\* C15
\* this step ran a command of a task with a capture variable, successfully
Exported ==
    /\ Appended # <<>>
    /\ Appended[1].ev = "cmd"
    /\ Appended[1].ok
    /\ Tasks[Appended[1].name].Set # ""

C15_Frame ==
    /\ Tasks' = Tasks
    /\ fs' = fs
    /\ env' # env =>
          /\ Exported
          /\ DOMAIN env' = DOMAIN env \cup {Tasks[Appended[1].name].Set}
          /\ \A v \in DOMAIN env : v # Tasks[Appended[1].name].Set => env'[v] = env[v]

\* C15: no step of RunTask changes the registry; the environment changes only
\* in a step that runs a command of a task with a non-empty Set successfully,
\* and then only in the variable Set names.
C15_OnlyVisitedAndSet == [][C15_Frame]_vars

\* R was exported by b; then c, whose Set is empty, ran its command and R is
\* what b left
C15_Witness ==
    /\ "R" \in DOMAIN env
    /\ Len(trace) >= 2
    /\ IsCmd(Len(trace)) /\ trace[Len(trace)].name = C /\ trace[Len(trace)].ok
    /\ \E j \in Idx :
          /\ IsCmd(j) /\ trace[j].name = B /\ trace[j].ok
          /\ \A q \in (j + 1)..Len(trace) : IsCmd(q) => trace[q].name = C
          /\ env["R"] = trace[j].out
          /\ trace[Len(trace)].out # trace[j].out

\* C18
\* the first position at which RunTask was entered with the name n
FirstCallOf(n) == Min({j \in Idx : IsCall(j) /\ trace[j].name = n})

\* C18: no command of a task is executed twice, and every command of a task
\* runs inside the first call that entered the task's name: once that call has
\* returned, whatever it returned, no command of the task runs again.
C18_AtMostOnce ==
    \A k \in Idx :
        IsCmd(k) =>
            LET n == trace[k].name
                j == FirstCallOf(n)
            IN /\ j < k
               /\ \A m \in (j + 1)..(k - 1) :
                     ~(IsRet(m) /\ trace[m].name = n /\ trace[m].depth = trace[j].depth)
               /\ \A m \in (j + 1)..(k - 1) :
                     IsCall(m) => trace[m].depth > trace[j].depth
               /\ \A m \in 1..(k - 1) :
                     ~(IsCmd(m) /\ trace[m].name = n /\ trace[m].idx = trace[k].idx)

\* the first command of a failed; a second RunTask("a") returned the cyclic
\* error and ran nothing
C18_Witness ==
    /\ calls = 2
    /\ stack = <<>>
    /\ Cardinality({k \in Idx : IsCmd(k) /\ trace[k].name = A}) = 1
    /\ \E k \in Idx :
          /\ k + 3 = Len(trace)
          /\ IsCmd(k) /\ trace[k].name = A /\ ~trace[k].ok
          /\ IsRet(k + 1) /\ trace[k + 1].depth = 0
          /\ IsCall(k + 2) /\ trace[k + 2].name = A /\ trace[k + 2].visited
          /\ IsRet(k + 3) /\ trace[k + 3].err = taskRunError(A, CyclicMsg)

\* C17
\* a step of the running call chain; every external command terminates, so a
\* step that can be taken is taken
Step == DepCall \/ DepFailed \/ DepDone \/ RunCmd \/ Return
\* The registries that differ in the dependency graph and the command counts:
\* task a exports nothing and declares no patterns.
FairInit ==
    /\ Init
    /\ Tasks[A].Set = ""
    /\ Len(Tasks[A].Sources) = 0

SpecFair == FairInit /\ [][Next]_vars /\ WF_vars(Step)

\* the calls that went on to run a task body
BodiesRun == {i \in Idx : IsCall(i) /\ ~trace[i].visited /\ trace[i].name \in DOMAIN Tasks}

C17_Bounded ==
    /\ Len(stack) <= Cardinality(DOMAIN Tasks)
    /\ \A i, j \in 1..Len(stack) : stack[i].name = stack[j].name => i = j
    /\ Cardinality(BodiesRun) <= Cardinality(DOMAIN Tasks)
    /\ \A i \in Idx :
          IsCall(i) => \/ ~trace[i].visited /\ trace[i].name \in runTasks
                       \/ i < Len(trace) /\ IsRet(i + 1) /\ trace[i + 1].name = trace[i].name

\* C17: every RunTask call returns, in registries with cycles and
\* self-dependencies too: a call returns at once or enters a name that was not
\* in runTasks, so the depth of the recursion and the number of task bodies
\* run never exceed the number of registry entries.
C17_Terminates == []C17_Bounded /\ ((stack # <<>>) ~> (stack = <<>>))

\* a depends on itself and on b, which depends on a: RunTask("a") has returned
C17_Witness ==
    /\ \E i \in 1..Len(Tasks[A].Deps) : Tasks[A].Deps[i] = A
    /\ Tasks[B].Deps = <<A>>
    /\ stack = <<>>
    /\ trace # <<>>
    /\ trace[1].name = B
    /\ \E i \in Idx : IsRet(i) /\ trace[i].depth = 0 /\ trace[i].name = B

\* ---------------------------------------------------------------- Run
\* the calls Run made and the returns it got
TopCalls == {i \in Idx : IsCall(i) /\ trace[i].depth = 0}
TopRets  == {i \in Idx : IsRet(i) /\ trace[i].depth = 0}
FailedTopRets == {i \in TopRets : trace[i].err # Nil}

\* C11: Run calls RunTask once per argument, in argument order, and stops at
\* the first call that returns an error: nothing happens after that return,
\* no call and no command, and log.Fatal gets the error; Run ends normally
\* only after every argument was called and returned nil.
C11_RunInOrder ==
    /\ Cardinality(TopCalls) = calls
    /\ calls <= Len(args)
    /\ \A i \in TopCalls :
          trace[i].name = args[Cardinality({j \in TopCalls : j <= i})]
    /\ \A i \in FailedTopRets :
          /\ i = Len(trace)
          /\ ret = trace[i].err
          /\ pc \in {"loop", "fatal"}
          /\ pc = "fatal" => fatal = trace[i].err
    /\ pc = "done" => /\ calls = Len(args)
                      /\ Cardinality(TopRets) = calls
                      /\ FailedTopRets = {}
    /\ pc = "fatal" => ~ENABLED RunNext

\* Run a b with Taskfile.yml: a ran commands and failed, b was never called
C11_Witness ==
    /\ pc = "fatal"
    /\ args = <<A, B>>
    /\ calls = 1
    /\ \E k \in Idx : IsCmd(k)
    /\ FailedTopRets # {}
    /\ fatal = taskRunError(C, CyclicMsg)

\* the candidates that decode
Decoding ==
    {i \in 1..Len(Formats) : taskfiles[Formats[i]].exists /\ taskfiles[Formats[i]].valid}
Loaded == pc \in {"loop", "done", "fatal"} /\ args # <<>>

\* C16 as stated: the registry comes from the first of .yml, .json, .toml
\* that parses successfully, and the no-task-file error is returned only when
\* none of the three yields a registry.
C16_FirstThatParses ==
    Loaded =>
       /\ Decoding # {} => /\ trace[1].from = Formats[Min(Decoding)]
                           /\ trace[1].err = Nil
       /\ trace[1].err = ErrNoTaskFile => Decoding = {}

Readable == {i \in 1..Len(Formats) : taskfiles[Formats[i]].exists}

\* C16 amended: the first of .yml, .json, .toml that can be read decides: what
\* its decoding gives is returned, its error too, and no later candidate is
\* tried; the no-task-file error is returned exactly when none can be read.
C16_FirstReadable ==
    Loaded =>
       /\ trace[1].ev = "load"
       /\ Readable # {} =>
             LET f == Formats[Min(Readable)]
             IN /\ trace[1].from = f
                /\ trace[1].err = (IF taskfiles[f].valid THEN Nil ELSE ParseError(f))
                /\ pc = "fatal" /\ calls = 0 <=> ~taskfiles[f].valid
                /\ Tasks # NilMap => taskfiles[f].valid /\ Tasks = taskfiles[f].tasks
       /\ Readable = {} <=> trace[1].err = ErrNoTaskFile
       /\ Readable = {} => pc = "fatal" /\ fatal = ErrNoTaskFile /\ Tasks = NilMap

\* Taskfile.yml does not decode, Taskfile.json does: Run stopped on the error
\* of the .yml file
C16_Witness ==
    /\ taskfiles["yml"] = Malformed
    /\ taskfiles["json"].valid
    /\ pc = "fatal"
    /\ fatal = ParseError("yml")
    /\ trace = <<LoadEv("yml", ParseError("yml"))>>

====
